---- MODULE Spec2Model ----
(***************************************************************************)
(* Portfolio backend (src/main.py): the read handlers, the seed handler    *)
(* and the diagnostics handler over the three collections team, member     *)
(* and project of a document store.                                        *)
(*                                                                         *)
(* A handler is one atomic action when it makes at most one store call     *)
(* (the read handlers, GET /test).  POST /api/seed makes up to nine store  *)
(* calls; it is one action per store call, so that requests served        *)
(* concurrently interleave between the calls.  Every statement between     *)
(* two store calls belongs to the action of the call before it.            *)
(*                                                                         *)
(* Strings are ASCII: the non-ASCII marks of the source's literals are     *)
(* written [OK], [X], [!] and the non-breaking hyphen as "-".              *)
(***************************************************************************)
EXTENDS Integers, Sequences, FiniteSets, TLC

\* Number of requests the server may be serving at the same time.
NumProcs == 2

Procs == 1..NumProcs

\* Python's None.
None == [py_none |-> TRUE]

Collections == {"team", "member", "project"}

VARIABLES
    db,             \* the store handle imported from database: "None" or "Database"
    env,            \* os.environ: DATABASE_URL and DATABASE_NAME
    store,          \* the persisted collections: collection name -> sequence of documents
    pc,             \* per request slot: "idle", or the store call a seed request is at
    has_team,       \* per slot: seed_data's local has_team
    has_members,    \* per slot: seed_data's local has_members
    has_projects,   \* per slot: seed_data's local has_projects
    idx,            \* per slot: seed_data's position in sample_members / sample_projects
    request,        \* the handler invocation that returned in the last step, if one did:
                    \* the handler and its has_* locals
    docs,           \* that invocation's local docs (what get_documents returned)
    raised,         \* the exception that invocation caught, and the call that raised it
    response,       \* what the transport layer got back from that invocation
    shaped          \* the direct application of serialize_doc made in the last step, if any

vars == <<db, env, store, pc, has_team, has_members, has_projects, idx,
          request, docs, raised, response, shaped>>

-----------------------------------------------------------------------------
(* Documents *)

\* The identifier the store gives a document on insert: unique over all
\* collections and never reused (collections only grow).
ObjectId(coll, n) == [coll |-> coll, n |-> n]

\* str(ObjectId)
Str(oid) == oid.coll \o "-" \o ToString(oid.n)

TeamSample ==
    [name |-> "Your Team",
     tagline |-> "We craft delightful products.",
     about |-> "A cross-functional team building modern, human-centered software.",
     website |-> None, github |-> None, x |-> None, linkedin |-> None]

sample_members ==
    << [name |-> "Alex Kim", role |-> "Product Designer",
        bio |-> "Designing intuitive interfaces and systems.",
        avatar |-> None, skills |-> <<"Figma", "UX", "Design Systems">>],
       [name |-> "Sam Patel", role |-> "Full-stack Engineer",
        bio |-> "TypeScript enjoyer and API whisperer.",
        avatar |-> None, skills |-> <<"React", "FastAPI", "MongoDB">>],
       [name |-> "Jamie Lee", role |-> "ML Engineer",
        bio |-> "Prototyping with LLMs and data pipelines.",
        avatar |-> None, skills |-> <<"Python", "LLMs", "MLOps">>] >>

sample_projects ==
    << [title |-> "Project Nebula",
        summary |-> "Interactive 3D landing with real-time data.",
        cover |-> None, repo |-> None, demo |-> None,
        members |-> <<"Alex Kim", "Sam Patel">>,
        tags |-> <<"React", "Spline", "WebGL">>],
       [title |-> "Atlas API",
        summary |-> "Fast, typed API for internal services.",
        cover |-> None, repo |-> None, demo |-> None,
        members |-> <<"Sam Patel">>,
        tags |-> <<"FastAPI", "OpenAPI", "Docker">>] >>

\* The sample documents seed_data inserts into a collection, in order.
Samples(coll) ==
    CASE coll = "team" -> <<TeamSample>>
      [] coll = "member" -> sample_members
      [] coll = "project" -> sample_projects

\* Documents some other writer left in the store before the process
\* started (schemas.py: Team, Member and Project, optional fields set or not).
Existing(coll) ==
    CASE coll = "team" -> [name |-> "Existing Team", website |-> "https://team.example"]
      [] coll = "member" -> [name |-> "Ada", role |-> "Engineer", skills |-> <<"Go", "SQL">>]
      [] coll = "project" -> [title |-> "Legacy", summary |-> "Old", tags |-> <<>>, members |-> <<"Ada">>]

\* A document as the store keeps it: the inserted fields plus _id.
Stored(doc, oid) == ("_id" :> oid) @@ doc

-----------------------------------------------------------------------------
(* Helpers of main.py *)

\* Python truthiness of a document argument: None and {} are falsy.
Falsy(doc) == doc = None \/ DOMAIN doc = {}

\* serialize_doc, lines 23-29: ret is the returned mapping, doc the caller's argument as
\* the call leaves it (d = dict(doc) is a copy, so the argument is untouched).
\* (as serialize_doc, but _id is read and not popped)
SerializeDocKeepsInternalId(doc) ==
    IF Falsy(doc) THEN [ret |-> doc, doc |-> doc]
    ELSE IF "_id" \in DOMAIN doc
         THEN [ret |-> ("id" :> Str(doc["_id"])) @@ doc, doc |-> doc]
         ELSE [ret |-> doc, doc |-> doc]
serialize_doc(doc) ==
    IF Falsy(doc) THEN [ret |-> doc, doc |-> doc]
    ELSE LET d == doc
         IN  IF "_id" \in DOMAIN d
             THEN [ret |-> ("id" :> Str(d["_id"])) @@ [f \in DOMAIN d \ {"_id"} |-> d[f]],
                   doc |-> doc]
             ELSE [ret |-> d, doc |-> doc]

serialize_list(ds) == [k \in 1..Len(ds) |-> serialize_doc(ds[k]).ret]

-----------------------------------------------------------------------------
(* The store, reached through database.py and the handle db *)

StoreError == "ServerSelectionTimeoutError: localhost:27017: [Errno 111] Connection refused"

NotAvailable == "Database not available. Check DATABASE_URL and DATABASE_NAME environment variables."

\* How a store call may end: a call through an absent handle always fails,
\* any other call fails or succeeds.
CallOutcomes == IF db = "None" THEN {"unavailable"} ELSE {"ok", "error"}

ErrorOf(outcome) == IF outcome = "unavailable" THEN NotAvailable ELSE StoreError

\* get_documents(coll, {}, limit): the documents of the collection in the
\* store's natural order; with limit = 1 one document, the one at `pick`
\* (the query gives no sort order).  limit = 0 stands for no limit.
get_documents(coll, limit, pick) ==
    IF limit = 1
    THEN IF store[coll] = <<>> THEN <<>> ELSE <<store[coll][pick]>>
    ELSE store[coll]

Picks(coll) == IF store[coll] = <<>> THEN {1} ELSE 1..Len(store[coll])

\* create_document(coll, data): the store after the insert.
create_document(coll, data) ==
    [store EXCEPT ![coll] = Append(@, Stored(data, ObjectId(coll, Len(@) + 1)))]

\* db[coll].count_documents({})
count_documents(coll) == Len(store[coll])

\* db.list_collection_names(): a collection exists once it holds a document.
list_collection_names ==
    LET name(coll) == IF store[coll] = <<>> THEN <<>> ELSE <<coll>>
    IN  name("member") \o name("project") \o name("team")

-----------------------------------------------------------------------------
(* Responses *)

NoException == [at |-> "none", idx |-> 0, msg |-> ""]

Exception(at, i, msg) == [at |-> at, idx |-> i, msg |-> msg]

NoResponse == [status_code |-> 0, body |-> <<>>]

\* The handler returned body: the framework sends it with status 200.
Returns(body) == [status_code |-> 200, body |-> body]

\* An exception left the handler: the framework answers 500.
Propagates == [status_code |-> 500, body |-> [detail |-> "Internal Server Error"]]

NoRequest ==
    [handler |-> "none", has_team |-> FALSE, has_members |-> FALSE, has_projects |-> FALSE]

\* An invocation of a handler without has_* locals.
Request(handler) ==
    [handler |-> handler, has_team |-> FALSE, has_members |-> FALSE, has_projects |-> FALSE]

-----------------------------------------------------------------------------
(* Initial states *)

EnvValues ==
    { [is_none |-> TRUE, str |-> ""],
      [is_none |-> FALSE, str |-> ""],
      [is_none |-> FALSE, str |-> "configured"] }

\* Each collection is empty or holds one document written earlier.
InitialContents(coll) == { <<>>, <<Stored(Existing(coll), ObjectId(coll, 1))>> }

NoShape == [called |-> FALSE, arg |-> <<>>, ret |-> <<>>, arg_after |-> <<>>]

InitLocals ==
    /\ pc = [p \in Procs |-> "idle"]
    /\ has_team = [p \in Procs |-> FALSE]
    /\ has_members = [p \in Procs |-> FALSE]
    /\ has_projects = [p \in Procs |-> FALSE]
    /\ idx = [p \in Procs |-> 0]
    /\ request = NoRequest
    /\ docs = <<>>
    /\ raised = NoException
    /\ response = NoResponse
    /\ shaped = NoShape

Environments == [{"DATABASE_URL", "DATABASE_NAME"} -> EnvValues]

\* The environment of a configured deployment.
Configured == [v \in {"DATABASE_URL", "DATABASE_NAME"} |-> [is_none |-> FALSE, str |-> "configured"]]

InitStore ==
    \E t \in InitialContents("team"), m \in InitialContents("member"),
       pr \in InitialContents("project") :
         store = [team |-> t, member |-> m, project |-> pr]

\* The process has started: the handle is there or not, no request yet.
Init ==
    /\ db \in {"None", "Database"}
    /\ env \in Environments
    /\ InitStore
    /\ InitLocals

\* As Init, in a configured deployment.
InitConfigured ==
    /\ db \in {"None", "Database"}
    /\ env = Configured
    /\ InitStore
    /\ InitLocals

\* A collection after seed_data filled it, `base` being what it held before.
SeededContents(coll, base) ==
    base \o [k \in 1..Len(Samples(coll)) |->
                Stored(Samples(coll)[k], ObjectId(coll, Len(base) + k))]

\* As InitConfigured, and a collection may also hold the sample documents of
\* an earlier run.
InitSeeded ==
    /\ db \in {"None", "Database"}
    /\ env = Configured
    /\ \E e \in [Collections -> BOOLEAN], sd \in [Collections -> BOOLEAN] :
         store = [c \in Collections |->
                    LET base == IF e[c] THEN <<Stored(Existing(c), ObjectId(c, 1))>> ELSE <<>>
                    IN  IF sd[c] THEN SeededContents(c, base) ELSE base]
    /\ InitLocals

-----------------------------------------------------------------------------
(* Read handlers *)

\* (as get_team, but docs[0] is read without the `if docs` guard: on an empty
\* result it raises IndexError, which the handler's except clause catches)
get_team_unguarded(p) ==
    /\ pc[p] = "idle"
    /\ request' = Request("get_team")
    /\ \E outcome \in CallOutcomes, pick \in Picks("team") :
        IF outcome = "ok"
        THEN LET ds == get_documents("team", 1, pick)
             IN  /\ docs' = ds
                 /\ raised' = IF ds # <<>> THEN NoException
                               ELSE Exception("index", 0, "list index out of range")
                 /\ response' = IF ds # <<>>
                                 THEN Returns([team |-> serialize_doc(ds[1]).ret])
                                 ELSE Returns([error |-> "list index out of range"])
        ELSE /\ docs' = <<>>
             /\ raised' = Exception("find", 0, ErrorOf(outcome))
             /\ response' = Returns([error |-> ErrorOf(outcome)])
    /\ shaped' = NoShape
    /\ UNCHANGED <<db, env, store, pc, has_team, has_members, has_projects, idx>>

\* @app.get("/api/team")
get_team(p) ==
    /\ pc[p] = "idle"
    /\ request' = Request("get_team")
    /\ \E outcome \in CallOutcomes, pick \in Picks("team") :
        IF outcome = "ok"
        THEN LET ds == get_documents("team", 1, pick)
                 team == IF ds # <<>> THEN serialize_doc(ds[1]).ret ELSE <<>>
             IN  /\ docs' = ds
                 /\ raised' = NoException
                 /\ response' = Returns([team |-> team])
        ELSE /\ docs' = <<>>
             /\ raised' = Exception("find", 0, ErrorOf(outcome))
             /\ response' = Returns([error |-> ErrorOf(outcome)])
    /\ shaped' = NoShape
    /\ UNCHANGED <<db, env, store, pc, has_team, has_members, has_projects, idx>>

\* The list handlers: get_members and get_projects differ in the collection
\* and the name of the response field only.
ListResponse(field, list) ==
    IF field = "members" THEN [members |-> list] ELSE [projects |-> list]

\* (as ListError, without the empty-sequence fallback)
ListErrorNoFallback(field, msg) == [error |-> msg]

ListError(field, msg) ==
    IF field = "members" THEN [error |-> msg, members |-> <<>>]
    ELSE [error |-> msg, projects |-> <<>>]

get_list(p, handler, coll, field) ==
    /\ pc[p] = "idle"
    /\ request' = Request(handler)
    /\ \E outcome \in CallOutcomes :
        IF outcome = "ok"
        THEN LET ds == get_documents(coll, 0, 1)
             IN  /\ docs' = ds
                 /\ raised' = NoException
                 /\ response' = Returns(ListResponse(field, serialize_list(ds)))
        ELSE /\ docs' = <<>>
             /\ raised' = Exception("find", 0, ErrorOf(outcome))
             /\ response' = Returns(ListError(field, ErrorOf(outcome)))
    /\ shaped' = NoShape
    /\ UNCHANGED <<db, env, store, pc, has_team, has_members, has_projects, idx>>

\* @app.get("/api/members")
get_members(p) == get_list(p, "get_members", "member", "members")

\* @app.get("/api/projects")
get_projects(p) == get_list(p, "get_projects", "project", "projects")

-----------------------------------------------------------------------------
(* Seed handler: @app.post("/api/seed") *)

AlreadyPresent == [status |-> "ok", message |-> "Data already present"]

Seeded == [status |-> "ok", message |-> "Seeded sample data"]

\* The invocation in slot p ends with response r, its has_* locals being
\* ht, hm, hp; the slot is free again.
SeedEnd(p, ht, hm, hp, exc, r) ==
    /\ request' = [handler |-> "seed_data",
                   has_team |-> ht, has_members |-> hm, has_projects |-> hp]
    /\ docs' = <<>>
    /\ raised' = exc
    /\ response' = r
    /\ pc' = [pc EXCEPT ![p] = "idle"]
    /\ has_team' = [has_team EXCEPT ![p] = FALSE]
    /\ has_members' = [has_members EXCEPT ![p] = FALSE]
    /\ has_projects' = [has_projects EXCEPT ![p] = FALSE]
    /\ idx' = [idx EXCEPT ![p] = 0]

\* (as SeedExcept, without the try/except: the exception leaves the handler)
SeedExceptPropagates(p, ht, hm, hp, exc) == SeedEnd(p, ht, hm, hp, exc, Propagates)

\* except Exception as e: return {"status": "error", "message": str(e)}
SeedExcept(p, ht, hm, hp, exc) ==
    SeedEnd(p, ht, hm, hp, exc, Returns([status |-> "error", message |-> exc.msg]))

\* The invocation in slot p goes on to the store call `to`: nothing is
\* returned in this step.
SeedGoto(p, to, ht, hm, hp, i) ==
    /\ pc' = [pc EXCEPT ![p] = to]
    /\ has_team' = [has_team EXCEPT ![p] = ht]
    /\ has_members' = [has_members EXCEPT ![p] = hm]
    /\ has_projects' = [has_projects EXCEPT ![p] = hp]
    /\ idx' = [idx EXCEPT ![p] = i]
    /\ request' = NoRequest
    /\ docs' = <<>>
    /\ raised' = NoException
    /\ response' = NoResponse

\* (as NextInsert, with the has_* tests left out: every block runs)
NextInsertUnconditional(after, ht, hm, hp) ==
    IF after = "count" THEN "insert_team"
    ELSE IF after = "insert_team" THEN "insert_member"
    ELSE IF after = "insert_member" THEN "insert_project"
    ELSE "return"

\* (as NextInsert, with the blocks chained by elif: only the first block whose
\* collection was empty runs)
NextInsertFirstOnly(after, ht, hm, hp) ==
    IF after # "count" THEN "return"
    ELSE IF ~ht THEN "insert_team"
    ELSE IF ~hm THEN "insert_member"
    ELSE IF ~hp THEN "insert_project"
    ELSE "return"

\* The store call the handler makes next, once the three counts are known and
\* the calls up to `after` are done: the if-blocks of lines 93, 106 and 132.
NextInsert(after, ht, hm, hp) ==
    IF after = "count" /\ ~ht THEN "insert_team"
    ELSE IF after \in {"count", "insert_team"} /\ ~hm THEN "insert_member"
    ELSE IF after \in {"count", "insert_team", "insert_member"} /\ ~hp THEN "insert_project"
    ELSE "return"

\* Move on after the counts or after a completed block.
SeedContinue(p, after, ht, hm, hp) ==
    LET to == NextInsert(after, ht, hm, hp)
    IN  IF to = "return"
        THEN SeedEnd(p, ht, hm, hp, NoException, Returns(Seeded))
        ELSE SeedGoto(p, to, ht, hm, hp, 1)

\* Request start, the db check and the first count (lines 85-87).
seed_count_team(p) ==
    /\ pc[p] = "idle"
    /\ IF db = "None"
       THEN SeedExcept(p, FALSE, FALSE, FALSE, Exception("db", 0, "Database not configured"))
       ELSE \E outcome \in CallOutcomes :
            IF outcome = "ok"
            THEN SeedGoto(p, "count_member", count_documents("team") > 0, FALSE, FALSE, 0)
            ELSE SeedExcept(p, FALSE, FALSE, FALSE, Exception("count_team", 0, ErrorOf(outcome)))
    /\ UNCHANGED <<db, env, store, shaped>>

\* Line 88.
seed_count_member(p) ==
    /\ pc[p] = "count_member"
    /\ \E outcome \in CallOutcomes :
        IF outcome = "ok"
        THEN SeedGoto(p, "count_project", has_team[p], count_documents("member") > 0, FALSE, 0)
        ELSE SeedExcept(p, has_team[p], FALSE, FALSE,
                        Exception("count_member", 0, ErrorOf(outcome)))
    /\ UNCHANGED <<db, env, store, shaped>>

\* (as seed_count_project, without the early return of lines 90-91)
seed_count_project_no_early_return(p) ==
    /\ pc[p] = "count_project"
    /\ \E outcome \in CallOutcomes :
        IF outcome = "ok"
        THEN SeedContinue(p, "count", has_team[p], has_members[p], count_documents("project") > 0)
        ELSE SeedExcept(p, has_team[p], has_members[p], FALSE,
                        Exception("count_project", 0, ErrorOf(outcome)))
    /\ UNCHANGED <<db, env, store, shaped>>

\* (as seed_count_project, with `or` for `and` in line 90)
seed_count_project_any(p) ==
    /\ pc[p] = "count_project"
    /\ \E outcome \in CallOutcomes :
        IF outcome = "ok"
        THEN LET hp == count_documents("project") > 0
             IN  IF has_team[p] \/ has_members[p] \/ hp
                 THEN SeedEnd(p, has_team[p], has_members[p], hp, NoException,
                              Returns(AlreadyPresent))
                 ELSE SeedContinue(p, "count", has_team[p], has_members[p], hp)
        ELSE SeedExcept(p, has_team[p], has_members[p], FALSE,
                        Exception("count_project", 0, ErrorOf(outcome)))
    /\ UNCHANGED <<db, env, store, shaped>>

\* Lines 89-91: the third count and the early return.
seed_count_project(p) ==
    /\ pc[p] = "count_project"
    /\ \E outcome \in CallOutcomes :
        IF outcome = "ok"
        THEN LET hp == count_documents("project") > 0
             IN  IF has_team[p] /\ has_members[p] /\ hp
                 THEN SeedEnd(p, TRUE, TRUE, TRUE, NoException, Returns(AlreadyPresent))
                 ELSE SeedContinue(p, "count", has_team[p], has_members[p], hp)
        ELSE SeedExcept(p, has_team[p], has_members[p], FALSE,
                        Exception("count_project", 0, ErrorOf(outcome)))
    /\ UNCHANGED <<db, env, store, shaped>>

\* (as seed_insert, but a failed insert removes what the block inserted before)
seed_insert_rollback(p, block, coll) ==
    /\ pc[p] = block
    /\ \E outcome \in CallOutcomes :
        IF outcome = "ok"
        THEN /\ store' = create_document(coll, Samples(coll)[idx[p]])
             /\ IF idx[p] < Len(Samples(coll))
                THEN SeedGoto(p, block, has_team[p], has_members[p], has_projects[p], idx[p] + 1)
                ELSE SeedContinue(p, block, has_team[p], has_members[p], has_projects[p])
        ELSE /\ SeedExcept(p, has_team[p], has_members[p], has_projects[p],
                           Exception(block, idx[p], ErrorOf(outcome)))
             /\ store' = [store EXCEPT ![coll] = SubSeq(@, 1, Len(@) - (idx[p] - 1))]
    /\ UNCHANGED <<db, env, shaped>>

\* One create_document call of the block `block` (lines 93-105, 106-131,
\* 132-154) and what follows it up to the next store call or the return.
seed_insert(p, block, coll) ==
    /\ pc[p] = block
    /\ \E outcome \in CallOutcomes :
        IF outcome = "ok"
        THEN /\ store' = create_document(coll, Samples(coll)[idx[p]])
             /\ IF idx[p] < Len(Samples(coll))
                THEN SeedGoto(p, block, has_team[p], has_members[p], has_projects[p], idx[p] + 1)
                ELSE SeedContinue(p, block, has_team[p], has_members[p], has_projects[p])
        ELSE /\ SeedExcept(p, has_team[p], has_members[p], has_projects[p],
                           Exception(block, idx[p], ErrorOf(outcome)))
             /\ UNCHANGED store
    /\ UNCHANGED <<db, env, shaped>>

seed_insert_team(p) == seed_insert(p, "insert_team", "team")

seed_insert_member(p) == seed_insert(p, "insert_member", "member")

seed_insert_project(p) == seed_insert(p, "insert_project", "project")

seed_data(p) ==
    \/ seed_count_team(p)
    \/ seed_count_member(p)
    \/ seed_count_project(p)
    \/ seed_insert_team(p)
    \/ seed_insert_member(p)
    \/ seed_insert_project(p)

-----------------------------------------------------------------------------
(* Diagnostics handler: @app.get("/test") *)

os_getenv(name) == env[name]

\* Python truthiness of os.getenv's result: None and "" are falsy.
Truthy(v) == ~v.is_none /\ v.str # ""

\* s[:n]
Prefix(s, n) == IF Len(s) <= n THEN s ELSE SubSeq(s, 1, n)

\* db.name
DatabaseName == "portfolio"

\* A field of the response that is None or a string.
Absent == [is_none |-> TRUE, str |-> ""]

Text(s) == [is_none |-> FALSE, str |-> s]

\* The response as lines 163-189 leave it.  name: what reading db.name does
\* ("value", "no_attr": hasattr is false, "raise": the lookup raises);
\* listing: how list_collection_names ends.
TestProbe(name, listing) ==
    LET r0 == [backend |-> "[OK] Running",
               database |-> "[X] Not Available",
               database_url |-> Absent,
               database_name |-> Absent,
               connection_status |-> "Not Connected",
               collections |-> <<>>]
    IN  IF db = "None"
        THEN [r0 EXCEPT !.database = "[!]  Available but not initialized"]
        ELSE LET r1 == [r0 EXCEPT !.database = "[OK] Available",
                                  !.database_url = Text("[OK] Configured")]
             IN  IF name = "raise"
                 THEN [r1 EXCEPT !.database = "[X] Error: " \o Prefix(StoreError, 50)]
                 ELSE LET r2 == [r1 EXCEPT
                                   !.database_name =
                                       Text(IF name = "value" THEN DatabaseName
                                            ELSE "[OK] Connected"),
                                   !.connection_status = "Connected"]
                      IN  IF listing = "ok"
                          THEN [r2 EXCEPT
                                  !.collections = Prefix(list_collection_names, 10),
                                  !.database = "[OK] Connected & Working"]
                          ELSE [r2 EXCEPT
                                  !.database = "[!]  Connected but Error: "
                                                  \o Prefix(ErrorOf(listing), 50)]

\* Lines 191-192.
EnvMark(name) == Text(IF Truthy(os_getenv(name)) THEN "[OK] Set" ELSE "[X] Not Set")

\* (as test_database, without lines 191-192)
test_database_keeps_probe(p) ==
    /\ pc[p] = "idle"
    /\ request' = Request("test_database")
    /\ \E name \in {"value", "no_attr", "raise"}, listing \in CallOutcomes :
        /\ response' = Returns(TestProbe(name, listing))
        /\ raised' = IF db = "None" THEN NoException
                     ELSE IF name = "raise" THEN Exception("name", 0, StoreError)
                     ELSE IF listing # "ok" THEN Exception("list", 0, ErrorOf(listing))
                     ELSE NoException
    /\ docs' = <<>>
    /\ UNCHANGED <<db, env, store, pc, has_team, has_members, has_projects, idx, shaped>>

\* @app.get("/test"), lines 161-194.
test_database(p) ==
    /\ pc[p] = "idle"
    /\ request' = Request("test_database")
    /\ \E name \in {"value", "no_attr", "raise"}, listing \in CallOutcomes :
        LET r == TestProbe(name, listing)
        IN  /\ response' = Returns([r EXCEPT !.database_url = EnvMark("DATABASE_URL"),
                                             !.database_name = EnvMark("DATABASE_NAME")])
            /\ raised' = IF db = "None" THEN NoException
                         ELSE IF name = "raise" THEN Exception("name", 0, StoreError)
                         ELSE IF listing # "ok" THEN Exception("list", 0, ErrorOf(listing))
                         ELSE NoException
    /\ docs' = <<>>
    /\ UNCHANGED <<db, env, store, pc, has_team, has_members, has_projects, idx, shaped>>

-----------------------------------------------------------------------------
(* serialize_doc applied directly *)

SkillLists == { <<>>, <<"Go", "SQL">>, <<"SQL", "Go">> }

\* A document argument: None, {} or a mapping with name and skills, with or
\* without _id (n > 0: ObjectId("member", n)), an id field of its own and an
\* avatar that is None.
Argument(kind, n, own_id, avatar, skills) ==
    IF kind = "None" THEN None
    ELSE IF kind = "empty" THEN <<>>
    ELSE LET fields == {"name", "skills"}
                         \cup (IF n > 0 THEN {"_id"} ELSE {})
                         \cup (IF own_id THEN {"id"} ELSE {})
                         \cup (IF avatar THEN {"avatar"} ELSE {})
         IN  [f \in fields |->
                CASE f = "name" -> "Ada"
                  [] f = "skills" -> skills
                  [] f = "_id" -> ObjectId("member", n)
                  [] f = "id" -> "legacy-7"
                  [] f = "avatar" -> None]

call_serialize_doc ==
    /\ \A p \in Procs : pc[p] = "idle"
    /\ \E kind \in {"None", "empty", "doc"}, n \in 0..2, own_id \in BOOLEAN,
          avatar \in BOOLEAN, skills \in SkillLists :
        LET arg == Argument(kind, n, own_id, avatar, skills)
            r == serialize_doc(arg)
        IN  shaped' = [called |-> TRUE, arg |-> arg, ret |-> r.ret, arg_after |-> r.doc]
    /\ request' = NoRequest
    /\ docs' = <<>>
    /\ raised' = NoException
    /\ response' = NoResponse
    /\ UNCHANGED <<db, env, store, pc, has_team, has_members, has_projects, idx>>

-----------------------------------------------------------------------------
(* Specifications *)

Handler(p) ==
    \/ get_team(p)
    \/ get_members(p)
    \/ get_projects(p)
    \/ seed_data(p)
    \/ test_database(p)

\* Requests are served concurrently.
Next == \E p \in Procs : Handler(p)

Spec == InitConfigured /\ [][Next]_vars

\* One request at a time: a request starts only when no other is in progress.
SeqNext == \E p \in Procs : (\A q \in Procs \ {p} : pc[q] = "idle") /\ Handler(p)

SeqSpec == Init /\ [][SeqNext]_vars

\* The read handlers over a store filled earlier, and serialize_doc on its own.
ShapeNext ==
    \/ \E p \in Procs : get_team(p) \/ get_members(p) \/ get_projects(p)
    \/ call_serialize_doc

ShapeSpec == InitSeeded /\ [][ShapeNext]_vars

-----------------------------------------------------------------------------
(* Properties *)

ReadHandlers == {"get_team", "get_members", "get_projects"}

\* out is doc shaped for the wire: id holds the string form of doc's _id,
\* _id is gone, every other field is there with its value, nothing is added.
ShapedFrom(doc, out) ==
    /\ DOMAIN out = (DOMAIN doc \ {"_id"}) \cup {"id"}
    /\ out["id"] = Str(doc["_id"])
    /\ \A f \in DOMAIN doc \ {"_id", "id"} : out[f] = doc[f]

\* C3: a read handler whose find call failed returns normally, with the
\* error's text under `error`, and for the list handlers the empty sequence
\* under `members` / `projects`.
C3_ReadFailureIsReturned ==
    (request.handler \in ReadHandlers /\ raised.at = "find") =>
        /\ response.status_code = 200
        /\ "error" \in DOMAIN response.body
        /\ response.body.error = raised.msg
        /\ request.handler = "get_members" =>
              response.body = [error |-> raised.msg, members |-> <<>>]
        /\ request.handler = "get_projects" =>
              response.body = [error |-> raised.msg, projects |-> <<>>]
        /\ request.handler = "get_team" => response.body = [error |-> raised.msg]

C3_Witness ==
    /\ db = "Database"
    /\ request.handler = "get_projects"
    /\ raised = Exception("find", 0, StoreError)
    /\ response = Returns([error |-> StoreError, projects |-> <<>>])

\* C4: every document a read handler returns is the stored document with _id
\* replaced by id, the string form of the identifier, all other fields
\* (sequence fields in their order) kept; serialize_doc returns None and {}
\* unchanged and never modifies its argument.
C4_DocumentsAreShaped ==
    /\ (request.handler = "get_members" /\ raised.at # "find") =>
          /\ Len(response.body.members) = Len(store["member"])
          /\ \A k \in 1..Len(store["member"]) :
                ShapedFrom(store["member"][k], response.body.members[k])
    /\ (request.handler = "get_projects" /\ raised.at # "find") =>
          /\ Len(response.body.projects) = Len(store["project"])
          /\ \A k \in 1..Len(store["project"]) :
                ShapedFrom(store["project"][k], response.body.projects[k])
    /\ (request.handler = "get_team" /\ raised.at # "find" /\ store["team"] # <<>>) =>
          \E k \in 1..Len(store["team"]) : ShapedFrom(store["team"][k], response.body.team)
    /\ shaped.called =>
          /\ shaped.arg_after = shaped.arg
          /\ Falsy(shaped.arg) => shaped.ret = shaped.arg
          /\ (~Falsy(shaped.arg) /\ "_id" \in DOMAIN shaped.arg) =>
                ShapedFrom(shaped.arg, shaped.ret)

C4_Witness ==
    /\ request.handler = "get_members"
    /\ raised = NoException
    /\ Len(store["member"]) = 4
    /\ store["member"][1]["_id"] = ObjectId("member", 1)
    /\ response.body.members[1]["id"] = "member-1"
    /\ response.body.members[1]["skills"] = <<"Go", "SQL">>
    /\ response.body.members[4]["skills"] = <<"Python", "LLMs", "MLOps">>

\* C5: with the store reachable and the collection empty, the read handlers
\* return exactly the default value, without an error field.
C5_EmptyCollectionGivesDefault ==
    (request.handler \in ReadHandlers /\ raised.at # "find") =>
        /\ (request.handler = "get_members" /\ store["member"] = <<>>) =>
              response = Returns([members |-> <<>>])
        /\ (request.handler = "get_projects" /\ store["project"] = <<>>) =>
              response = Returns([projects |-> <<>>])
        /\ (request.handler = "get_team" /\ store["team"] = <<>>) =>
              response = Returns([team |-> <<>>])

C5_Witness ==
    /\ db = "Database"
    /\ request.handler = "get_team"
    /\ raised = NoException
    /\ store["team"] = <<>>
    /\ response = Returns([team |-> <<>>])

-----------------------------------------------------------------------------
(* Properties of the seed handler *)

InsertBlocks == {"insert_team", "insert_member", "insert_project"}

BlockOf(coll) == "insert_" \o coll

\* The has_* local of the invocation in slot p that stands for coll.
HasLocal(p, coll) ==
    CASE coll = "team" -> has_team[p]
      [] coll = "member" -> has_members[p]
      [] coll = "project" -> has_projects[p]

\* The same, of the invocation that returned in the last step.
Had(coll) ==
    CASE coll = "team" -> request.has_team
      [] coll = "member" -> request.has_members
      [] coll = "project" -> request.has_projects

SeedReturned == request.handler = "seed_data"

\* The first n documents of a sequence.
Take(seq, n) == SubSeq(seq, 1, n)

\* A step changes the store only by appending, to one collection, the sample
\* document a seed invocation is at, and that invocation counted zero
\* documents in the collection.
InsertsOnlyWhereCountWasZero ==
    store' # store =>
        \E p \in Procs, c \in Collections :
            /\ pc[p] = BlockOf(c)
            /\ ~HasLocal(p, c)
            /\ store' = [store EXCEPT ![c] =
                            Append(@, Stored(Samples(c)[idx[p]], ObjectId(c, Len(@) + 1)))]

\* With one request at a time, the counts an invocation has taken are those
\* of the store as it is.
CountsAreCurrent ==
    \A p \in Procs :
        /\ pc[p] \in {"count_member", "count_project"} =>
              has_team[p] = (store["team"] # <<>>)
        /\ pc[p] = "count_project" => has_members[p] = (store["member"] # <<>>)

FullySeededStore == [c \in Collections |-> SeededContents(c, <<>>)]

C1_Returns ==
    /\ (SeedReturned /\ raised = NoException
          /\ ~request.has_team /\ ~request.has_members /\ ~request.has_projects) =>
            /\ response = Returns(Seeded)
            /\ store = FullySeededStore
            /\ Len(store["team"]) = 1 /\ Len(store["member"]) = 3 /\ Len(store["project"]) = 2
    /\ (SeedReturned /\ request.has_team /\ request.has_members /\ request.has_projects) =>
            response = Returns(AlreadyPresent)
    /\ (SeedReturned /\ response = Returns(AlreadyPresent)) =>
            (request.has_team /\ request.has_members /\ request.has_projects)
    /\ CountsAreCurrent
    /\ \A p \in Procs :
          pc[p] \in InsertBlocks => ~(has_team[p] /\ has_members[p] /\ has_projects[p])

C1_NoInsertWhileCounting ==
    /\ store' # store => \E p \in Procs : pc[p] \in InsertBlocks
    /\ (SeedReturned' /\ response' = Returns(AlreadyPresent)) => store' = store

\* C1: one request at a time.  A seed call that counted zero in all three
\* collections and met no failure returns "Seeded sample data" and leaves
\* exactly 1 team, 3 member and 2 project documents, the samples.  A seed call that runs while
\* all three collections are non-empty counts all three as non-empty, returns
\* "Data already present" unless a count fails, and never gets to an insert:
\* no step of it changes the store.
C1_SeedTwice == []C1_Returns /\ [][C1_NoInsertWhileCounting]_vars

C1_Witness ==
    /\ SeedReturned
    /\ response = Returns(AlreadyPresent)
    /\ store = FullySeededStore

C2_UnavailableAtStart ==
    (SeedReturned' /\ raised'.at \in {"db", "count_team"}) =>
        /\ response'.status_code = 200
        /\ response'.body = [status |-> "error", message |-> raised'.msg]
        /\ raised'.msg \in {"Database not configured", StoreError}
        /\ (db = "None") = (raised'.at = "db")
        /\ store' = store

\* C2: a seed call that finds the handle absent or whose first count fails
\* returns normally, status "error" with the exception's text as message, and
\* the step in which it does so leaves the store as it was.
C2_SeedUnavailable == [][C2_UnavailableAtStart]_vars

C2_Witness ==
    /\ db = "None"
    /\ SeedReturned
    /\ raised.at = "db"
    /\ response = Returns([status |-> "error", message |-> "Database not configured"])

\* C6: GET /test returns normally whatever the store does, and database_url
\* and database_name are a function of the environment alone: "Set" when the
\* variable holds a non-empty value, "Not Set" otherwise.
C6_DiagnosticsFollowEnvironment ==
    request.handler = "test_database" =>
        /\ response.status_code = 200
        /\ response.body.database_url =
              Text(IF ~env["DATABASE_URL"].is_none /\ env["DATABASE_URL"].str # ""
                   THEN "[OK] Set" ELSE "[X] Not Set")
        /\ response.body.database_name =
              Text(IF ~env["DATABASE_NAME"].is_none /\ env["DATABASE_NAME"].str # ""
                   THEN "[OK] Set" ELSE "[X] Not Set")

C6_Witness ==
    /\ request.handler = "test_database"
    /\ db = "Database"
    /\ raised.at = "list"
    /\ env["DATABASE_URL"].is_none
    /\ ~env["DATABASE_NAME"].is_none /\ env["DATABASE_NAME"].str # ""
    /\ response.body.database_url = Text("[X] Not Set")
    /\ response.body.database_name = Text("[OK] Set")

\* The field that tells a sample document of a collection from another.
KeyOf(coll, doc) == IF coll = "project" THEN doc["title"] ELSE doc["name"]

\* How many copies of the first sample document the collection holds.
Copies(coll) ==
    Cardinality({k \in 1..Len(store[coll]) :
                    KeyOf(coll, store[coll][k]) = KeyOf(coll, Samples(coll)[1])})

\* C7: the count and the inserts of a seed call are separate steps: a call is
\* at an insert only for a collection it counted as empty, whatever the
\* collection holds by now, so the store holds as many copies of the sample
\* content as calls counted zero, at most one per concurrent call.
C7_CopiesPerConcurrentCall ==
    /\ \A c \in Collections : Copies(c) <= NumProcs
    /\ \A p \in Procs, c \in Collections : pc[p] = BlockOf(c) => ~HasLocal(p, c)

\* Both calls counted zero before either inserted, and both inserted.
C7_Witness ==
    /\ Len(store["team"]) = 2
    /\ Len(store["member"]) = 6
    /\ Len(store["project"]) = 4
    /\ \A c \in Collections : Copies(c) = 2
    /\ SeedReturned
    /\ response = Returns(Seeded)
    /\ ~request.has_team /\ ~request.has_members /\ ~request.has_projects

C8_Returns ==
    (SeedReturned /\ raised = NoException
        /\ ~(request.has_team /\ request.has_members /\ request.has_projects)) =>
        /\ response = Returns(Seeded)
        /\ \A c \in Collections :
              /\ ~Had(c) => store[c] = SeededContents(c, <<>>)
              /\ Had(c) => store[c] # <<>>

InsertedBefore(coll, at, i) ==
    IF BlockOf(coll) = at THEN i - 1
    ELSE IF \/ coll = "team"
            \/ coll = "member" /\ at = "insert_project"
         THEN Len(Samples(coll))
         ELSE 0

C9_Returns ==
    (SeedReturned /\ raised.at \in InsertBlocks) =>
        /\ response = Returns([status |-> "error", message |-> raised.msg])
        /\ \A c \in Collections :
              ~Had(c) => store[c] = Take(SeededContents(c, <<>>),
                                         InsertedBefore(c, raised.at, raised.idx))

C9_NoRollback ==
    /\ \A c \in Collections :
          /\ Len(store'[c]) >= Len(store[c])
          /\ Take(store'[c], Len(store[c])) = store[c]
    /\ (SeedReturned' /\ raised'.at \in InsertBlocks) =>
          /\ store' = store
          /\ \E p \in Procs : pc[p] = raised'.at /\ idx[p] = raised'.idx /\ pc'[p] = "idle"

\* C9: one request at a time.  A seed call whose insert fails returns status
\* "error" with the exception's text and ends there; the documents it
\* inserted before are still in the store, in order, the failing insert and
\* those after it are not, and no step ever removes or changes a stored
\* document.
C9_PartialSeedStays == []C9_Returns /\ [][C9_NoRollback]_vars /\ [][InsertsOnlyWhereCountWasZero]_vars

C9_Witness ==
    /\ SeedReturned
    /\ raised = Exception("insert_member", 3, StoreError)
    /\ ~request.has_team /\ ~request.has_members /\ ~request.has_projects
    /\ Len(store["team"]) = 1
    /\ Len(store["member"]) = 2
    /\ store["project"] = <<>>

C10_OkMeansSeeded ==
    (SeedReturned /\ response.status_code = 200 /\ response.body.status = "ok") =>
        \A c \in Collections : store[c] # <<>>

C10_Grows ==
    /\ \A c \in Collections :
          /\ Len(store'[c]) >= Len(store[c])
          /\ Take(store'[c], Len(store[c])) = store[c]
    /\ request'.handler \in ReadHandlers \cup {"test_database"} => store' = store

====
